---- MODULE Spec2Model ----
(***************************************************************************)
(* A model of the execution gatekeeper of the Kali MCP server              *)
(* (src/server.py): the request model ToolExecutionRequest, the security   *)
(* helpers sanitize_path and validate_tool_access, the MCP tool run_tool   *)
(* and the HTTP handler POST /run.                                         *)
(*                                                                         *)
(* Python strings are sequences of one-character strings; an Optional      *)
(* value is the empty tuple (None) or a one-element tuple <<v>>.           *)
(***************************************************************************)
EXTENDS Integers, Sequences, FiniteSets, TLC

\* ------------------------------------------------------------------------
\* Optional values and strings
\* ------------------------------------------------------------------------
None == << >>
Some(v) == << v >>
IsNone(o) == o = << >>
Val(o) == o[1]

\* "sub in s" for Python strings
Contains(s, sub) ==
    \E i \in 1..(Len(s) - Len(sub) + 1) : SubSeq(s, i, i + Len(sub) - 1) = sub

\* s.startswith(pre)
StartsWith(s, pre) == Len(s) >= Len(pre) /\ SubSeq(s, 1, Len(pre)) = pre

\* s.replace(old, new): leftmost, non-overlapping occurrences, one pass
RECURSIVE Replace(_, _, _)
Replace(s, old, new) ==
    IF Len(s) < Len(old) THEN s
    ELSE IF SubSeq(s, 1, Len(old)) = old
         THEN new \o Replace(SubSeq(s, Len(old) + 1, Len(s)), old, new)
         ELSE << s[1] >> \o Replace(Tail(s), old, new)

\* s.split(sep) for a one-character separator: the components, empty ones kept
RECURSIVE SplitAcc(_, _, _)
SplitAcc(s, sep, cur) ==
    IF s = << >> THEN << cur >>
    ELSE IF s[1] = sep THEN << cur >> \o SplitAcc(Tail(s), sep, << >>)
         ELSE SplitAcc(Tail(s), sep, Append(cur, s[1]))

Split(s, sep) == SplitAcc(s, sep, << >>)

\* sep.join(comps)
RECURSIVE Join(_, _)
Join(comps, sep) ==
    IF comps = << >> THEN << >>
    ELSE IF Len(comps) = 1 THEN comps[1]
         ELSE comps[1] \o << sep >> \o Join(Tail(comps), sep)

DOT == << "." >>
DOTDOT == << ".", "." >>
SLASH == << "/" >>
SLASHSLASH == << "/", "/" >>

\* ------------------------------------------------------------------------
\* os.path.normpath (posixpath), as called by sanitize_path
\* ------------------------------------------------------------------------
InitialSlashes(path) ==
    IF ~StartsWith(path, SLASH) THEN 0
    ELSE IF StartsWith(path, SLASHSLASH) /\ ~StartsWith(path, << "/", "/", "/" >>)
         THEN 2
         ELSE 1

RECURSIVE NormComps(_, _, _)
NormComps(comps, initial, acc) ==
    IF comps = << >> THEN acc
    ELSE LET comp == comps[1]
             rest == Tail(comps)
         IN  IF comp = << >> \/ comp = DOT THEN NormComps(rest, initial, acc)
             ELSE IF comp # DOTDOT
                     \/ (initial = 0 /\ acc = << >>)
                     \/ (acc # << >> /\ acc[Len(acc)] = DOTDOT)
                  THEN NormComps(rest, initial, Append(acc, comp))
                  ELSE IF acc # << >>
                       THEN NormComps(rest, initial, SubSeq(acc, 1, Len(acc) - 1))
                       ELSE NormComps(rest, initial, acc)

normpath(path) ==
    IF path = << >> THEN DOT
    ELSE LET initial == InitialSlashes(path)
             joined  == Join(NormComps(Split(path, "/"), initial, << >>), "/")
             lead    == IF initial = 2 THEN SLASHSLASH
                        ELSE IF initial = 1 THEN SLASH ELSE << >>
             out     == lead \o joined
         IN  IF out = << >> THEN DOT ELSE out

\* ------------------------------------------------------------------------
\* sanitize_path
\* ------------------------------------------------------------------------
StripTraversal(path) == Replace(Replace(path, DOTDOT, << >>), SLASHSLASH, SLASH)

sanitize_path(path) ==
    IF path = << >> THEN << >>
    ELSE LET p1 == StripTraversal(path)
             p2 == IF ~StartsWith(p1, SLASH) THEN SLASH \o p1 ELSE p1
         IN  normpath(p2)

\* ------------------------------------------------------------------------
\* Configuration (Config and the module-level overrides from the environment)
\* The numeric values are scaled down; MAX_TIMEOUT, DEFAULT_TIMEOUT and
\* MAX_OUTPUT_SIZE make any integer a possible configuration.
\* ------------------------------------------------------------------------
max_timeout == 3
default_timeout == 2
max_output_size == 2
working_directory == << "/", "w" >>

\* Tool names of the model: "ss" and "dig" are allow-listed, "rm" is not.
T_ss == << "s", "s" >>
T_dig == << "d", "i", "g" >>
T_rm == << "r", "m" >>

\* Config.__post_init__: the allow-list (a list), here two of its entries
DefaultAllowedTools == << T_dig, T_ss >>

\* "x in list"
InList(x, list) == \E i \in 1..Len(list) : list[i] = x

\* ------------------------------------------------------------------------
\* ToolExecutionRequest: field validators
\* ------------------------------------------------------------------------
Letters == { "a", "b", "c", "d", "e", "f", "g", "h", "i", "j", "k", "l", "m",
             "n", "o", "p", "q", "r", "s", "t", "u", "v", "w", "x", "y", "z",
             "A", "B", "C", "D", "E", "F", "G", "H", "I", "J", "K", "L", "M",
             "N", "O", "P", "Q", "R", "S", "T", "U", "V", "W", "X", "Y", "Z" }
Digits == { "0", "1", "2", "3", "4", "5", "6", "7", "8", "9" }

\* the character class [a-zA-Z0-9_-]
ToolNameClass == Letters \cup Digits \cup { "_", "-" }

\* re.match(r'^[a-zA-Z0-9_-]+$', v): one or more class characters from the
\* start, then "$", which matches at the end of the string and also just
\* before a newline that ends the string.
ToolNameRegexMatches(v) ==
    \E k \in 1..Len(v) :
        /\ \A i \in 1..k : v[i] \in ToolNameClass
        /\ \/ k = Len(v)
           \/ k = Len(v) - 1 /\ v[Len(v)] = "\n"

\* @validator('tool')
validate_tool(v) == ToolNameRegexMatches(v)

\* a variant of the list that lacks '$'
DangerousChars_without_dollar == { ";", "&", "|", "BACKTICK", "(", ")", "<", ">" }

\* [';', '&', '|', backtick, '$', '(', ')', '<', '>']; the backtick cannot be
\* written in a TLA+ string and is the token "BACKTICK"
DangerousChars == { ";", "&", "|", "BACKTICK", "$", "(", ")", "<", ">" }

\* @validator('args'): TRUE when the value is accepted
validate_args(v) ==
    IsNone(v) \/ ~(\E c \in DangerousChars : Contains(Val(v), << c >>))

\* timeout: Optional[int] = Field(None, ge=1, le=config.max_timeout)
validate_timeout(v) == IsNone(v) \/ (Val(v) >= 1 /\ Val(v) <= max_timeout)

E_TOOL == "Tool name contains invalid characters"
E_ARGS == "Arguments contain potentially dangerous characters"
E_TIMEOUT == "timeout out of range"

\* ToolExecutionRequest(**body): every field is validated and every failure
\* is collected; the model is built only when there is none.
RequestErrors(r) ==
    (IF validate_tool(r.tool) THEN {} ELSE { E_TOOL })
    \cup (IF validate_args(r.args) THEN {} ELSE { E_ARGS })
    \cup (IF validate_timeout(r.timeout) THEN {} ELSE { E_TIMEOUT })

\* ------------------------------------------------------------------------
\* shlex.split(args) (POSIX mode, no comments), for strings without
\* backslashes and double quotes: whitespace separates words, a single quote
\* opens a quoted part that runs to the next single quote.
\* state: "ws" between words, "word" inside a word, "quote" inside quotes.
\* ------------------------------------------------------------------------
Whitespace == { " ", "\t", "\n", "\r" }

RECURSIVE ShlexScan(_, _, _, _)
ShlexScan(s, state, tok, out) ==
    IF s = << >>
    THEN IF state = "quote" THEN [ok |-> FALSE, tokens |-> << >>]
         ELSE IF state = "word" THEN [ok |-> TRUE, tokens |-> Append(out, tok)]
              ELSE [ok |-> TRUE, tokens |-> out]
    ELSE LET c == s[1]
             rest == Tail(s)
         IN  IF state = "quote"
             THEN IF c = "'" THEN ShlexScan(rest, "word", tok, out)
                  ELSE ShlexScan(rest, "quote", Append(tok, c), out)
             ELSE IF c \in Whitespace
                  THEN IF state = "word"
                       THEN ShlexScan(rest, "ws", << >>, Append(out, tok))
                       ELSE ShlexScan(rest, "ws", << >>, out)
                  ELSE IF c = "'" THEN ShlexScan(rest, "quote", tok, out)
                       ELSE ShlexScan(rest, "word", Append(tok, c), out)

shlex_split(s) == ShlexScan(s, "ws", << >>, << >>)

\* ------------------------------------------------------------------------
\* run_tool: the output returned on normal exit
\* ------------------------------------------------------------------------
TRUNCATION_MARKER ==
    << "\n", ".", ".", ".", " ", "(", "o", "u", "t", "p", "u", "t", " ",
       "t", "r", "u", "n", "c", "a", "t", "e", "d", ")" >>

\* a variant that cuts the output and appends no marker
truncate_output_no_marker(stdout, stderr) ==
    LET output == stdout \o stderr
    IN  IF Len(output) > max_output_size
        THEN SubSeq(output, 1, max_output_size)
        ELSE output

\* a variant that puts stderr in front of stdout
truncate_output_stderr_first(stdout, stderr) ==
    LET output == stderr \o stdout
    IN  IF Len(output) > max_output_size
        THEN SubSeq(output, 1, max_output_size) \o TRUNCATION_MARKER
        ELSE output

truncate_output(stdout, stderr) ==
    LET output == stdout \o stderr
    IN  IF Len(output) > max_output_size
        THEN SubSeq(output, 1, max_output_size) \o TRUNCATION_MARKER
        ELSE output

\* ------------------------------------------------------------------------
\* State
\* ------------------------------------------------------------------------
\* The server handles HTTP requests on its event loop ("http") and runs the
\* MCP server, which exposes run_tool, get_tool_info and list_tools directly,
\* on a background thread ("mcp").
Workers == { "http", "mcp" }

VARIABLES
    allowed_tools,  \* config.allowed_tools
    installed,      \* host: the names for which the search path holds a file
    executable,     \* host: the names whose file the running user may execute
    environ,        \* os.environ of the server process
    dirs,           \* host: the directories that exist
    backlog,        \* HTTP requests received and waiting for the event loop
    pc,             \* per worker: "idle", "running" (blocked in subprocess.run), "done"
    op,             \* per worker: the entry point that is being served
    req,            \* per worker: the request as received
    calls,          \* per worker: the run_tool invocations made for the request
    spawns,         \* per worker: the subprocess.run invocations made for the request
    live,           \* per worker: the processes of the request that still run
    expired,        \* per worker: the deadline passed before the process exited
    proc,           \* per worker: what the launched process wrote, and its exit code
    result,         \* per worker: how run_tool (or request validation) ended
    status,         \* per worker: the HTTP status of the response (0: none)
    body,           \* per worker: the body of the HTTP response to POST /run
    info,           \* per worker: how a tool_manager request ended
    probes,         \* per worker: the version probes run for the request
    log,            \* per worker: the log events emitted for the request
    h_in,           \* input of the function under test (pure-function specifications)
    h_out           \* its result

vars == << allowed_tools, installed, executable, environ, dirs, backlog, pc, op,
           req, calls, spawns, live, expired, proc, result, status, body, info,
           probes, log, h_in, h_out >>

host_vars == << allowed_tools, installed, executable, environ >>
info_vars == << info, probes >>
harness_vars == << h_in, h_out >>

NoRequest == [tool |-> << >>, args |-> None, timeout |-> None, working_dir |-> None]
NoProc == [stdout |-> << >>, stderr |-> << >>, writes |-> << >>, returncode |-> None]
NoResult == [kind |-> "none", detail |-> "", errors |-> {}, value |-> << >>]
NoBody == [success |-> FALSE, output |-> << >>, tool |-> << >>, args |-> None,
           return_code |-> None, error |-> ""]
NoInfo == [name |-> << >>, raised |-> "", tools |-> << >>]
Unset == << "unset" >>

\* ------------------------------------------------------------------------
\* validate_tool_access
\* ------------------------------------------------------------------------
\* shutil.which(tool): a path when the search path holds a file of that name
\* that the running user may execute
which(tool) ==
    IF tool \in installed /\ tool \in executable
    THEN Some(<< "/", "b", "/" >> \o tool)
    ELSE None

\* os.access(tool_path, os.X_OK) for a path shutil.which returned
os_access_x(tool) == tool \in executable

\* a variant that only asks whether the host has the tool
validate_tool_access_host_only(tool) ==
    IF IsNone(which(tool)) THEN FALSE
    ELSE IF ~os_access_x(tool) THEN FALSE
    ELSE TRUE

\* a variant that is content with a file of that name on the search path
validate_tool_access_any_file(tool) ==
    IF ~InList(tool, allowed_tools) THEN FALSE
    ELSE tool \in installed

validate_tool_access(tool) ==
    IF ~InList(tool, allowed_tools) THEN FALSE
    ELSE IF IsNone(which(tool)) THEN FALSE
    ELSE IF ~os_access_x(tool) THEN FALSE
    ELSE TRUE

\* ------------------------------------------------------------------------
\* create_sandbox_environment
\* ------------------------------------------------------------------------
restricted_vars == << "PATH", "HOME", "USER", "SHELL", "PWD", "LANG", "LC_ALL" >>

\* a variant that starts from the whole inherited environment
create_sandbox_environment_inherit_all(working_dir) ==
    LET names == DOMAIN environ \cup { "PWD", "LD_PRELOAD", "LD_LIBRARY_PATH" }
    IN  [ n \in names |->
            IF n = "PWD" THEN working_dir
            ELSE IF n \in { "LD_PRELOAD", "LD_LIBRARY_PATH" } THEN << >>
            ELSE environ[n] ]

\* the environment of a launched tool: the restricted variables that
\* os.environ sets, then PWD, LD_PRELOAD and LD_LIBRARY_PATH overwritten
create_sandbox_environment(working_dir) ==
    LET kept == { restricted_vars[i] : i \in 1..Len(restricted_vars) } \cap DOMAIN environ
        names == kept \cup { "PWD", "LD_PRELOAD", "LD_LIBRARY_PATH" }
    IN  [ n \in names |->
            IF n = "PWD" THEN working_dir
            ELSE IF n \in { "LD_PRELOAD", "LD_LIBRARY_PATH" } THEN << >>
            ELSE environ[n] ]

\* ------------------------------------------------------------------------
\* run_tool, up to the call of subprocess.run
\* ------------------------------------------------------------------------
\* "if x:" for an Optional[str]
Truthy(o) == ~IsNone(o) /\ Val(o) # << >>

\* a variant that clamps a timeout above the ceiling to the ceiling
EffectiveTimeout_clamped(timeout) ==
    IF IsNone(timeout) THEN [ok |-> TRUE, value |-> default_timeout]
    ELSE IF Val(timeout) > max_timeout THEN [ok |-> TRUE, value |-> max_timeout]
    ELSE [ok |-> TRUE, value |-> Val(timeout)]

\* the timeout step: config.default_timeout for None, a ValueError above the
\* ceiling, the caller's value otherwise
EffectiveTimeout(timeout) ==
    IF IsNone(timeout) THEN [ok |-> TRUE, value |-> default_timeout]
    ELSE IF Val(timeout) > max_timeout THEN [ok |-> FALSE, value |-> Val(timeout)]
    ELSE [ok |-> TRUE, value |-> Val(timeout)]

\* the directories os.makedirs(path) makes exist: path and its ancestors
RECURSIVE DropEmpty(_)
DropEmpty(comps) ==
    IF comps = << >> THEN << >>
    ELSE IF comps[1] = << >> THEN DropEmpty(Tail(comps))
         ELSE << comps[1] >> \o DropEmpty(Tail(comps))

MadeDirs(path) ==
    LET comps == DropEmpty(Split(path, "/"))
    IN  { path } \cup { SLASH \o Join(SubSeq(comps, 1, k), "/") : k \in 1..Len(comps) }

\* the working-directory step: the directory to run in
WorkingDirFor(working_dir) ==
    IF Truthy(working_dir) THEN sanitize_path(Val(working_dir))
    ELSE working_directory

\* the command step: [tool] + shlex.split(args)
BuildCommand(tool, args) ==
    IF Truthy(args)
    THEN LET sp == shlex_split(Val(args))
         IN  [ok |-> sp.ok, cmd |-> << tool >> \o sp.tokens]
    ELSE [ok |-> TRUE, cmd |-> << tool >>]

\* a variant that runs the command line through a shell
Launch_through_shell(cmd, cwd, timeout) ==
    << [cmd |-> << << "s", "h" >>, << "-", "c" >> >> \o cmd, cwd |-> cwd,
        timeout |-> timeout, shell |-> TRUE,
        env |-> create_sandbox_environment(cwd)] >>

\* the subprocess.run invocations of one run_tool call: one, with an argument
\* vector (no shell=True), the working directory, the sandbox environment and
\* the timeout
Launch(cmd, cwd, timeout) ==
    << [cmd |-> cmd, cwd |-> cwd, timeout |-> timeout, shell |-> FALSE,
        env |-> create_sandbox_environment(cwd)] >>

\* a variant that looks at the timeout before it looks at the tool
RunToolEnter_timeout_first(tool, args, timeout, working_dir, mk_ok, launch_ok) ==
    LET et  == EffectiveTimeout(timeout)
        wd  == WorkingDirFor(working_dir)
        bc  == BuildCommand(tool, args)
        made == IF wd \in dirs THEN dirs ELSE dirs \cup MadeDirs(wd)
        stopped(k, d, fs) == [stop |-> k, detail |-> d, dirs |-> fs, spawns |-> << >>]
    IN  IF ~et.ok
        THEN stopped("ValueError", "exceeds maximum allowed", dirs)
        ELSE IF ~validate_tool_access(tool)
        THEN stopped("SecurityError", "not allowed or not available", dirs)
        ELSE IF wd \notin dirs /\ ~mk_ok
        THEN stopped("OSError", "makedirs", dirs)
        ELSE IF ~bc.ok
        THEN stopped("ValueError", "Invalid arguments", made)
        ELSE [stop |-> IF launch_ok THEN "launched" ELSE "OSError",
              detail |-> IF launch_ok THEN "" ELSE "launch",
              dirs |-> made,
              spawns |-> Launch(bc.cmd, wd, et.value)]

\* run_tool from its entry to subprocess.run. mk_ok: os.makedirs succeeds;
\* launch_ok: the process starts. stop = "launched" when it blocks in
\* subprocess.run, else the exception raised.
RunToolEnter(tool, args, timeout, working_dir, mk_ok, launch_ok) ==
    LET et  == EffectiveTimeout(timeout)
        wd  == WorkingDirFor(working_dir)
        bc  == BuildCommand(tool, args)
        made == IF wd \in dirs THEN dirs ELSE dirs \cup MadeDirs(wd)
        stopped(k, d, fs) == [stop |-> k, detail |-> d, dirs |-> fs, spawns |-> << >>]
    IN  IF ~validate_tool_access(tool)
        THEN stopped("SecurityError", "not allowed or not available", dirs)
        ELSE IF ~et.ok
        THEN stopped("ValueError", "exceeds maximum allowed", dirs)
        ELSE IF wd \notin dirs /\ ~mk_ok
        THEN stopped("OSError", "makedirs", dirs)
        ELSE IF ~bc.ok
        THEN stopped("ValueError", "Invalid arguments", made)
        ELSE [stop |-> IF launch_ok THEN "launched" ELSE "OSError",
              detail |-> IF launch_ok THEN "" ELSE "launch",
              dirs |-> made,
              spawns |-> Launch(bc.cmd, wd, et.value)]

\* the exceptions "except ValueError" catches: ValueError and its subclasses
ValueErrors == { "ValueError", "UnicodeDecodeError" }

\* a variant whose first handler catches OSError, the base of TimeoutError
StatusOf_oserror_first(kind) ==
    IF kind = "return" THEN 200
    ELSE IF kind \in { "OSError", "TimeoutError" } THEN 500
    ELSE IF kind = "SecurityError" THEN 403
    ELSE IF kind \in ValueErrors THEN 400
    ELSE 500

\* run_tool_http: the status of the HTTPException an exception is mapped to
StatusOf(kind) ==
    IF kind = "return" THEN 200
    ELSE IF kind = "SecurityError" THEN 403
    ELSE IF kind \in ValueErrors THEN 400
    ELSE IF kind = "TimeoutError" THEN 408
    ELSE 500

\* a variant that reports success without echoing the arguments
ResponseBody_no_args_echo(r, res) ==
    IF res.kind = "return"
    THEN [success |-> TRUE, output |-> res.value, tool |-> r.tool, args |-> None,
          return_code |-> Some(0), error |-> ""]
    ELSE IF res.kind \in { "SecurityError", "TimeoutError" } \cup ValueErrors
    THEN [NoBody EXCEPT !.error = res.detail]
    ELSE [NoBody EXCEPT !.error = "Internal server error"]

\* run_tool_http: the body of the response to request r when run_tool ended
\* as res: a ToolExecutionResponse, or the detail of the HTTPException
ResponseBody(r, res) ==
    IF res.kind = "return"
    THEN [success |-> TRUE, output |-> res.value, tool |-> r.tool, args |-> r.args,
          return_code |-> Some(0), error |-> ""]
    ELSE IF res.kind \in { "SecurityError", "TimeoutError" } \cup ValueErrors
    THEN [NoBody EXCEPT !.error = res.detail]
    ELSE [NoBody EXCEPT !.error = "Internal server error"]

\* ------------------------------------------------------------------------
\* ToolManager
\* ------------------------------------------------------------------------
probe_timeout == 5

VERSION_FLAG == << "-", "-", "v", "e", "r", "s", "i", "o", "n" >>

\* how the version probe of one call may end: exit code 0 with a version
\* line, another exit code, or subprocess.run raising
ProbeOutcomes == { "version", "nonzero", "TimeoutExpired", "FileNotFoundError",
                   "PermissionError" }

\* the exceptions of the probe that get_tool_info swallows
ProbeTolerated == { "TimeoutExpired", "CalledProcessError", "FileNotFoundError" }

\* subprocess.run([tool_name, "--version"], capture_output=True, text=True,
\* timeout=5): the server's own environment and working directory
VersionProbe(tool) ==
    [cmd |-> << tool, VERSION_FLAG >>, cwd |-> None, timeout |-> probe_timeout,
     shell |-> FALSE, env |-> environ]

ToolInfo(name, path, version, available) ==
    [name |-> name, path |-> path, version |-> version, available |-> available]

\* ToolManager.get_tool_info(tool) when the probe ends as probe: the ToolInfo
\* or None, the exception that escapes, and the probes run
get_tool_info(tool, probe) ==
    IF ~validate_tool_access(tool)
    THEN [raised |-> "", value |-> None, probes |-> << >>]
    ELSE IF IsNone(which(tool))
    THEN [raised |-> "", value |-> None, probes |-> << >>]
    ELSE IF probe \notin { "version", "nonzero" } \cup ProbeTolerated
    THEN [raised |-> probe, value |-> None, probes |-> << VersionProbe(tool) >>]
    ELSE [raised |-> "",
          value |-> Some(ToolInfo(tool, Val(which(tool)),
                                  IF probe = "version" THEN Some(<< "1" >>) ELSE None,
                                  TRUE)),
          probes |-> << VersionProbe(tool) >>]

\* ToolManager.list_tools over the names that are left to visit
RECURSIVE ListFrom(_, _)
ListFrom(names, probe) ==
    IF names = << >> THEN [raised |-> "", tools |-> << >>, probes |-> << >>]
    ELSE LET g == get_tool_info(names[1], probe)
             rest == ListFrom(Tail(names), probe)
         IN  IF g.raised # ""
             THEN [raised |-> g.raised, tools |-> << >>, probes |-> g.probes]
             ELSE IF rest.raised # ""
             THEN [raised |-> rest.raised, tools |-> << >>,
                   probes |-> g.probes \o rest.probes]
             ELSE [raised |-> "",
                   tools |-> << IF IsNone(g.value)
                                THEN ToolInfo(names[1], << >>, None, FALSE)
                                ELSE Val(g.value) >> \o rest.tools,
                   probes |-> g.probes \o rest.probes]

list_tools(probe) == ListFrom(allowed_tools, probe)

\* ------------------------------------------------------------------------
\* Inputs
\* ------------------------------------------------------------------------
MaxToolLen == 3
MaxArgLen == 2
MaxPathLen == 4

\* all strings over an alphabet, up to a length
Strings(alphabet, n) == UNION { [1..k -> alphabet] : k \in 0..n }

ToolInputs == { T_ss, T_dig, T_rm }
ArgsInputs == { None, Some(<< "-", "V" >>), Some(<< "a", ";", "b" >>), Some(<< "'", "a" >>) }
TimeoutInputs == { None } \cup { Some(t) : t \in { -1, 0, 1, max_timeout, max_timeout + 1 } }
WorkingDirInputs == { None, Some(<< "/", "e" >>), Some(<< "/", "w", "/", "x" >>) }

Requests ==
    [tool : ToolInputs, args : ArgsInputs, timeout : TimeoutInputs,
     working_dir : WorkingDirInputs]

\* one write of a process to one of its output streams
Chunk(stream, data) == [stream |-> stream, data |-> data]

\* what the pipe of one stream holds after the writes: its chunks, in order
RECURSIVE StreamOf(_, _)
StreamOf(writes, stream) ==
    IF writes = << >> THEN << >>
    ELSE (IF writes[1].stream = stream THEN writes[1].data ELSE << >>)
             \o StreamOf(Tail(writes), stream)

\* what subprocess.run(capture_output=True, text=True) holds of a process
Captured(writes, returncode) ==
    [stdout |-> StreamOf(writes, "stdout"), stderr |-> StreamOf(writes, "stderr"),
     writes |-> writes, returncode |-> returncode]

\* what a process may have written when it exits, and its exit code
ProcOutputs ==
    { Captured(<< Chunk("stdout", << "o" >>) >>, Some(0)),
      Captured(<< Chunk("stderr", << "e" >>), Chunk("stdout", << "o" >>) >>, Some(1)),
      Captured(<< Chunk("stdout", << "o" >>), Chunk("stderr", << "e" >>),
                  Chunk("stdout", << "u" >>) >>, Some(0)) }

\* what a process may have written when its deadline passes
PartialOutputs ==
    { NoProc, Captured(<< Chunk("stdout", << "o" >>) >>, None) }

\* what the host may refuse during one call: nothing, the creation of the
\* working directory (os.makedirs raises OSError), or the start of the
\* process (subprocess.run raises OSError)
Faults == { "none", "makedirs", "launch" }

\* ------------------------------------------------------------------------
\* Init
\* ------------------------------------------------------------------------
\* the environment the server was started in
StartEnviron ==
    [ n \in { "PATH", "HOME", "PYTHONPATH", "LD_PRELOAD" } |->
        IF n = "PATH" THEN << "/", "b" >> ELSE << "v" >> ]

InitWorkers ==
    /\ backlog = 0
    /\ pc = [w \in Workers |-> "idle"]
    /\ op = [w \in Workers |-> "none"]
    /\ req = [w \in Workers |-> NoRequest]
    /\ calls = [w \in Workers |-> << >>]
    /\ spawns = [w \in Workers |-> << >>]
    /\ live = [w \in Workers |-> {}]
    /\ expired = [w \in Workers |-> FALSE]
    /\ proc = [w \in Workers |-> NoProc]
    /\ result = [w \in Workers |-> NoResult]
    /\ status = [w \in Workers |-> 0]
    /\ body = [w \in Workers |-> NoBody]
    /\ info = [w \in Workers |-> NoInfo]
    /\ probes = [w \in Workers |-> << >>]
    /\ log = [w \in Workers |-> << >>]

InitServer ==
    /\ allowed_tools = DefaultAllowedTools
    /\ installed = { T_ss, T_rm }
    /\ executable = { T_ss, T_rm }
    /\ environ = StartEnviron
    /\ dirs = { working_directory, << "/", "e" >> }
    /\ InitWorkers

Init ==
    /\ InitServer
    /\ h_in = Unset
    /\ h_out = Unset

\* ------------------------------------------------------------------------
\* Actions: run_tool
\* ------------------------------------------------------------------------
\* run_tool has ended as res for worker w serving request r: the MCP client
\* gets res itself, the HTTP client the response run_tool_http builds
LogEvent(level, by) == [level |-> level, by |-> by]

\* what run_tool logs from its launch on when it ends as res: a warning for a
\* truncated output and for a timeout, an error for an exception of
\* subprocess.run, nothing for an exception raised before the launch. A launch
\* that fails has logged "Executing tool" just before.
RunToolLog(res) ==
    IF res.kind = "return"
    THEN (IF Len(res.value) > max_output_size
          THEN << LogEvent("warning", "run_tool") >> ELSE << >>)
             \o << LogEvent("info", "run_tool") >>
    ELSE IF res.kind = "TimeoutError" THEN << LogEvent("warning", "run_tool") >>
    ELSE IF res.kind = "OSError" /\ res.detail = "launch"
    THEN << LogEvent("info", "run_tool"), LogEvent("error", "run_tool") >>
    ELSE IF res.kind = "UnicodeDecodeError" THEN << LogEvent("error", "run_tool") >>
    ELSE << >>

\* what run_tool_http logs for the exception it maps, and then log_requests
\* for the response
HttpLog(res) ==
    (IF res.kind = "return" THEN << >>
     ELSE IF res.kind \in { "SecurityError", "TimeoutError" } \cup ValueErrors
     THEN << LogEvent("warning", "run_tool_http") >>
     ELSE << LogEvent("error", "run_tool_http") >>)
        \o << LogEvent("info", "log_requests") >>

Finish(w, r, res) ==
    /\ pc' = [pc EXCEPT ![w] = "done"]
    /\ log' = [log EXCEPT ![w] = @ \o RunToolLog(res)
                                   \o (IF w = "http" THEN HttpLog(res) ELSE << >>)]
    /\ result' = [result EXCEPT ![w] = res]
    /\ status' = [status EXCEPT ![w] = IF w = "http" THEN StatusOf(res.kind) ELSE 0]
    /\ body' = [body EXCEPT ![w] = IF w = "http" THEN ResponseBody(r, res) ELSE NoBody]

\* worker w calls run_tool(r.tool, r.args, r.timeout, r.working_dir): the call
\* runs to its first exception or until it blocks in subprocess.run
CallRunTool(w, r, mk_ok, launch_ok) ==
    LET e == RunToolEnter(r.tool, r.args, r.timeout, r.working_dir, mk_ok, launch_ok)
    IN  /\ calls' = [calls EXCEPT ![w] = Append(@, r)]
        /\ dirs' = e.dirs
        /\ spawns' = [spawns EXCEPT ![w] = @ \o e.spawns]
        /\ IF e.stop = "launched"
           THEN /\ pc' = [pc EXCEPT ![w] = "running"]
                /\ live' = [live EXCEPT ![w] = { "tool" }]
                /\ log' = [log EXCEPT ![w] = Append(@, LogEvent("info", "run_tool"))]
                /\ UNCHANGED << result, status, body >>
           ELSE /\ Finish(w, r, [kind |-> e.stop, detail |-> e.detail, errors |-> {},
                                 value |-> << >>])
                /\ UNCHANGED live

\* POST /run with body r, taken up by the event loop: FastAPI builds
\* ToolExecutionRequest (422 when a validator rejects), then run_tool_http
\* calls run_tool with its fields
PostRunWith(r, mk_ok, launch_ok) ==
    /\ pc["http"] = "idle"
    /\ op' = [op EXCEPT !["http"] = "/run"]
    /\ req' = [req EXCEPT !["http"] = r]
    /\ IF RequestErrors(r) # {}
       THEN /\ pc' = [pc EXCEPT !["http"] = "done"]
            /\ result' = [result EXCEPT !["http"] =
                   [kind |-> "RequestValidationError", detail |-> "",
                    errors |-> RequestErrors(r), value |-> << >>]]
            /\ status' = [status EXCEPT !["http"] = 422]
            /\ body' = [body EXCEPT !["http"] = [NoBody EXCEPT !.error = "request validation"]]
            /\ log' = [log EXCEPT !["http"] = Append(@, LogEvent("info", "log_requests"))]
            /\ UNCHANGED << calls, dirs, spawns, live >>
       ELSE CallRunTool("http", r, mk_ok, launch_ok)
    /\ UNCHANGED << host_vars, expired, proc, info_vars, harness_vars >>

PostRun ==
    /\ \E r \in Requests, f \in Faults : PostRunWith(r, f # "makedirs", f # "launch")
    /\ UNCHANGED backlog

\* the MCP tool run_tool, called by an MCP client with arguments r
McpRunToolWith(r, mk_ok, launch_ok) ==
    /\ pc["mcp"] = "idle"
    /\ op' = [op EXCEPT !["mcp"] = "run_tool"]
    /\ req' = [req EXCEPT !["mcp"] = r]
    /\ CallRunTool("mcp", r, mk_ok, launch_ok)
    /\ UNCHANGED << host_vars, backlog, expired, proc, info_vars, harness_vars >>

McpRunTool == \E r \in Requests, f \in Faults :
                  McpRunToolWith(r, f # "makedirs", f # "launch")

\* the process exits before the deadline: subprocess.run returns and run_tool
\* returns the (truncated) output. A deadline that is not positive has passed
\* by the time subprocess.run waits, so it never returns normally then.
ProcessExit(w) ==
    /\ pc[w] = "running"
    /\ ~expired[w]
    /\ spawns[w][Len(spawns[w])].timeout > 0
    /\ \E out \in ProcOutputs :
          /\ proc' = [proc EXCEPT ![w] = out]
          /\ Finish(w, req[w], [kind |-> "return", detail |-> "", errors |-> {},
                                value |-> truncate_output(out.stdout, out.stderr)])
    /\ live' = [live EXCEPT ![w] = @ \ { "tool" }]
    /\ UNCHANGED << host_vars, dirs, backlog, op, req, calls, spawns, expired,
                    info_vars, harness_vars >>

\* the process exits before the deadline with output that text=True cannot
\* decode: subprocess.run raises UnicodeDecodeError, which run_tool re-raises
ProcessDecodeError(w) ==
    /\ pc[w] = "running"
    /\ ~expired[w]
    /\ spawns[w][Len(spawns[w])].timeout > 0
    /\ Finish(w, req[w], [kind |-> "UnicodeDecodeError", detail |-> "can't decode",
                          errors |-> {}, value |-> << >>])
    /\ live' = [live EXCEPT ![w] = @ \ { "tool" }]
    /\ UNCHANGED << host_vars, dirs, backlog, op, req, calls, spawns, expired, proc,
                    info_vars, harness_vars >>

\* the deadline passes while the process still runs: communicate() raises
\* subprocess.TimeoutExpired; seen is what the process wrote until then
DeadlineWith(w, seen) ==
    /\ pc[w] = "running"
    /\ ~expired[w]
    /\ expired' = [expired EXCEPT ![w] = TRUE]
    /\ proc' = [proc EXCEPT ![w] = seen]
    /\ UNCHANGED << host_vars, dirs, backlog, pc, op, req, calls, spawns, live,
                    result, status, body, info_vars, log, harness_vars >>

\* the deadline passes before the process wrote anything
Deadline(w) == DeadlineWith(w, NoProc)

\* the deadline passes after the process may have written something
DeadlineCaptured(w) == \E seen \in PartialOutputs : DeadlineWith(w, seen)

\* a variant that hands the caller what was captured until the deadline
ProcessTimeout_partial_output(w) ==
    /\ pc[w] = "running"
    /\ expired[w]
    /\ live' = [live EXCEPT ![w] = @ \ { "tool" }]
    /\ Finish(w, req[w], [kind |-> "return", detail |-> "", errors |-> {},
                          value |-> truncate_output(proc[w].stdout, proc[w].stderr)])
    /\ UNCHANGED << host_vars, dirs, backlog, op, req, calls, spawns, expired, proc,
                    info_vars, harness_vars >>

\* subprocess.run handles TimeoutExpired: process.kill() and process.wait() on
\* the process it started, then run_tool raises TimeoutError
ProcessTimeout(w) ==
    /\ pc[w] = "running"
    /\ expired[w]
    /\ live' = [live EXCEPT ![w] = @ \ { "tool" }]
    /\ Finish(w, req[w], [kind |-> "TimeoutError", detail |-> "timed out",
                          errors |-> {}, value |-> << >>])
    /\ UNCHANGED << host_vars, dirs, backlog, op, req, calls, spawns, expired, proc,
                    info_vars, harness_vars >>

\* the running tool starts a child process of its own
ProcessFork(w) ==
    /\ pc[w] = "running"
    /\ "tool" \in live[w]
    /\ "child" \notin live[w]
    /\ live' = [live EXCEPT ![w] = @ \cup { "child" }]
    /\ UNCHANGED << host_vars, dirs, backlog, pc, op, req, calls, spawns, expired,
                    proc, result, status, body, info_vars, log, harness_vars >>

\* the child process of the tool exits on its own
ChildExit(w) ==
    /\ "child" \in live[w]
    /\ live' = [live EXCEPT ![w] = @ \ { "child" }]
    /\ UNCHANGED << host_vars, dirs, backlog, pc, op, req, calls, spawns, expired,
                    proc, result, status, body, info_vars, log, harness_vars >>

\* the response has been sent; the worker takes the next request
Respond(w) ==
    /\ pc[w] = "done"
    /\ pc' = [pc EXCEPT ![w] = "idle"]
    /\ op' = [op EXCEPT ![w] = "none"]
    /\ req' = [req EXCEPT ![w] = NoRequest]
    /\ calls' = [calls EXCEPT ![w] = << >>]
    /\ spawns' = [spawns EXCEPT ![w] = << >>]
    /\ live' = [live EXCEPT ![w] = {}]
    /\ expired' = [expired EXCEPT ![w] = FALSE]
    /\ proc' = [proc EXCEPT ![w] = NoProc]
    /\ result' = [result EXCEPT ![w] = NoResult]
    /\ status' = [status EXCEPT ![w] = 0]
    /\ body' = [body EXCEPT ![w] = NoBody]
    /\ info' = [info EXCEPT ![w] = NoInfo]
    /\ probes' = [probes EXCEPT ![w] = << >>]
    /\ log' = [log EXCEPT ![w] = << >>]
    /\ UNCHANGED << host_vars, dirs, backlog, harness_vars >>

Next ==
    \/ PostRun
    \/ McpRunTool
    \/ \E w \in Workers : ProcessExit(w)
    \/ \E w \in Workers : Deadline(w)
    \/ \E w \in Workers : ProcessTimeout(w)
    \/ \E w \in Workers : Respond(w)

Spec == Init /\ [][Next]_vars

\* ------------------------------------------------------------------------
\* POST /run over every tool name up to MaxToolLen characters
\* ------------------------------------------------------------------------
ToolAlphabet == { "s", "-", "_", " ", "\n", "/" }
ToolStrings == Strings(ToolAlphabet, MaxToolLen)

PostRunTool ==
    /\ \E t \in ToolStrings, launch_ok \in BOOLEAN :
           PostRunWith([tool |-> t, args |-> None, timeout |-> None,
                        working_dir |-> None], TRUE, launch_ok)
    /\ UNCHANGED backlog

NextTool ==
    \/ PostRunTool
    \/ ProcessExit("http")
    \/ Deadline("http")
    \/ ProcessTimeout("http")
    \/ Respond("http")

SpecTool == Init /\ [][NextTool]_vars

\* ------------------------------------------------------------------------
\* POST /run over every argument string up to MaxArgLen characters
\* ------------------------------------------------------------------------
ArgAlphabet == { ";", "&", "|", "BACKTICK", "$", "(", ")", "<", ">", "{", "}", "[", "]",
                 "a", " " }
ArgStrings == Strings(ArgAlphabet, MaxArgLen)

PostRunArgs ==
    /\ \E a \in { None } \cup { Some(x) : x \in ArgStrings },
          t \in { T_ss, T_rm }, launch_ok \in BOOLEAN :
           PostRunWith([tool |-> t, args |-> a, timeout |-> None,
                        working_dir |-> None], TRUE, launch_ok)
    /\ UNCHANGED backlog

NextArgs ==
    \/ PostRunArgs
    \/ ProcessExit("http")
    \/ Deadline("http")
    \/ ProcessTimeout("http")
    \/ Respond("http")

SpecArgs == Init /\ [][NextArgs]_vars

\* ------------------------------------------------------------------------
\* sanitize_path over every path up to MaxPathLen characters, and the paths
\* the tests name
\* ------------------------------------------------------------------------
PathAlphabet == { ".", "/", "e" }
P_etc_passwd == << ".", ".", "/", ".", ".", "/", ".", ".", "/", "e", "t", "c", "/", "p", "a", "s", "s", "w", "d" >>
P_slashes == << "/", "/", "e", "t", "c", "/", "/", "p", "a", "s", "s", "w", "d" >>
P_dots == << ".", ".", ".", ".", "/", "/", ".", ".", ".", ".", "/", "/", ".", ".", ".", ".", "/", "/", "e", "t", "c", "/", "/", "p", "a", "s", "s", "w", "d" >>
\* the path claim C7 names besides these
C7_NamedPath == << ".", ".", ".", ".", "/", "/", ".", ".", ".", ".", "/", "/", "e", "t", "c", "/", "/", "p", "a", "s", "s", "w", "d" >>
PathInputs == Strings(PathAlphabet, MaxPathLen) \cup { P_etc_passwd, P_slashes, P_dots, C7_NamedPath }

InitPath ==
    /\ InitServer
    /\ h_in \in PathInputs
    /\ h_out = Unset

SanitizeStep ==
    /\ h_out = Unset
    /\ h_out' = sanitize_path(h_in)
    /\ UNCHANGED << host_vars, dirs, backlog, pc, op, req, calls, spawns, live,
                    expired, proc, result, status, body, info_vars, log, h_in >>

SpecPath == InitPath /\ [][SanitizeStep]_vars

\* ------------------------------------------------------------------------
\* Actions: the tool_manager requests
\* ------------------------------------------------------------------------
\* worker w served entry point entry (for the tool name, if it takes one) in
\* one step: what it raised, the ToolInfo entries it produced, the HTTP status
\* and the probes it ran. An exception that reaches general_exception_handler
\* is logged as an error; any other HTTP response passes log_requests.
Answer(w, entry, name, raised, tools, st, pr) ==
    /\ pc[w] = "idle"
    /\ pc' = [pc EXCEPT ![w] = "done"]
    /\ op' = [op EXCEPT ![w] = entry]
    /\ info' = [info EXCEPT ![w] = [name |-> name, raised |-> raised, tools |-> tools]]
    /\ log' = [log EXCEPT ![w] =
                  IF w # "http" THEN @
                  ELSE IF st = 500
                  THEN Append(@, LogEvent("error", "general_exception_handler"))
                  ELSE Append(@, LogEvent("info", "log_requests"))]
    /\ probes' = [probes EXCEPT ![w] = pr]
    /\ status' = [status EXCEPT ![w] = st]
    /\ UNCHANGED << dirs, req, calls, spawns, live, expired, proc, result, body,
                    harness_vars >>

\* the entries of a list that are available
RECURSIVE Available(_)
Available(tools) ==
    IF tools = << >> THEN << >>
    ELSE (IF tools[1].available THEN << tools[1] >> ELSE << >>) \o Available(Tail(tools))

\* a variant that drops the unavailable tools from config.allowed_tools
ListToolsHttp_pruning(probe) ==
    LET l == list_tools(probe)
    IN  /\ Answer("http", "/tools", << >>, l.raised, l.tools,
                  IF l.raised = "" THEN 200 ELSE 500, l.probes)
        /\ allowed_tools' = SelectSeq(allowed_tools, validate_tool_access)
        /\ UNCHANGED << installed, executable, environ >>

\* GET /tools: tool_manager.list_tools(); an exception it raises reaches
\* general_exception_handler
ListToolsHttp(probe) ==
    LET l == list_tools(probe)
    IN  /\ Answer("http", "/tools", << >>, l.raised, l.tools,
                  IF l.raised = "" THEN 200 ELSE 500, l.probes)
        /\ UNCHANGED host_vars

\* GET /tools/{tool_name}: tool_manager.get_tool_info, 404 for None
GetToolInfoHttp(tool, probe) ==
    LET g == get_tool_info(tool, probe)
    IN  /\ Answer("http", "/tools/{tool_name}", tool, g.raised,
                  IF IsNone(g.value) THEN << >> ELSE << Val(g.value) >>,
                  IF g.raised # "" THEN 500 ELSE IF IsNone(g.value) THEN 404 ELSE 200,
                  g.probes)
        /\ UNCHANGED host_vars

\* GET /metrics: the counts of tool_manager.list_tools()
GetMetrics(probe) ==
    LET l == list_tools(probe)
    IN  /\ Answer("http", "/metrics", << >>, l.raised, l.tools,
                  IF l.raised = "" THEN 200 ELSE 500, l.probes)
        /\ UNCHANGED host_vars

\* the MCP tool list_tools: the available entries of tool_manager.list_tools()
McpListTools(probe) ==
    LET l == list_tools(probe)
    IN  /\ Answer("mcp", "list_tools", << >>, l.raised, Available(l.tools), 0, l.probes)
        /\ UNCHANGED << host_vars, backlog >>

\* the MCP tool get_tool_info: ValueError for None; for a ToolInfo, asdict()
\* of a pydantic model, which raises TypeError
McpGetToolInfo(tool, probe) ==
    LET g == get_tool_info(tool, probe)
    IN  /\ Answer("mcp", "get_tool_info", tool,
                  IF g.raised # "" THEN g.raised
                  ELSE IF IsNone(g.value) THEN "ValueError" ELSE "TypeError",
                  << >>, 0, g.probes)
        /\ UNCHANGED << host_vars, backlog >>

\* ------------------------------------------------------------------------
\* The whole server: HTTP requests queue for the event loop, the MCP thread
\* serves its clients beside it, and the launched tools fork, write and exit
\* ------------------------------------------------------------------------
MaxBacklog == 2

SysRequests ==
    [tool : { T_ss, T_rm },
     args : { None, Some(<< "-", "V" >>), Some(<< "'", "a" >>) },
     timeout : { None, Some(max_timeout + 1) },
     working_dir : { None, Some(<< "/", "w", "/", "x" >>) }]

\* an HTTP request arrives while the event loop may be busy
Arrive ==
    /\ backlog < MaxBacklog
    /\ backlog' = backlog + 1
    /\ UNCHANGED << host_vars, dirs, pc, op, req, calls, spawns, live, expired,
                    proc, result, status, body, info_vars, log, harness_vars >>

\* the event loop, free again, takes up the next request that waits
TakeUp ==
    /\ backlog > 0
    /\ backlog' = backlog - 1

SysPostRun ==
    /\ TakeUp
    /\ \E r \in SysRequests, f \in Faults : PostRunWith(r, f # "makedirs", f # "launch")

SysListTools == TakeUp /\ \E p \in ProbeOutcomes : ListToolsHttp(p)

SysGetToolInfo == TakeUp /\ \E t \in ToolInputs, p \in ProbeOutcomes : GetToolInfoHttp(t, p)

SysGetMetrics == TakeUp /\ \E p \in ProbeOutcomes : GetMetrics(p)

SysMcpRunTool == \E r \in SysRequests, f \in Faults :
                     McpRunToolWith(r, f # "makedirs", f # "launch")

SysMcpListTools == \E p \in ProbeOutcomes : McpListTools(p)

SysMcpGetToolInfo == \E t \in ToolInputs, p \in ProbeOutcomes : McpGetToolInfo(t, p)

NextSys ==
    \/ Arrive
    \/ SysPostRun
    \/ SysListTools
    \/ SysGetToolInfo
    \/ SysGetMetrics
    \/ SysMcpRunTool
    \/ SysMcpListTools
    \/ SysMcpGetToolInfo
    \/ \E w \in Workers : ProcessFork(w)
    \/ \E w \in Workers : ChildExit(w)
    \/ \E w \in Workers : ProcessExit(w)
    \/ \E w \in Workers : ProcessDecodeError(w)
    \/ \E w \in Workers : DeadlineCaptured(w)
    \/ \E w \in Workers : ProcessTimeout(w)
    \/ \E w \in Workers : Respond(w)

SpecSys == Init /\ [][NextSys]_vars

\* subprocess.run answers a passed deadline without waiting for anything but
\* the process it kills, so a call whose deadline passed goes on to raise
SpecSysFair == SpecSys /\ \A w \in Workers : WF_vars(ProcessTimeout(w))

\* ------------------------------------------------------------------------
\* create_sandbox_environment over every inherited environment
\* ------------------------------------------------------------------------
EnvNames == { "PATH", "HOME", "USER", "SHELL", "PWD", "LANG", "LC_ALL",
              "LD_PRELOAD", "LD_LIBRARY_PATH", "PYTHONPATH" }

Environs == UNION { [D -> { << "v" >> }] : D \in SUBSET EnvNames }

InitEnv ==
    /\ allowed_tools = DefaultAllowedTools
    /\ installed = { T_ss, T_rm }
    /\ executable = { T_ss, T_rm }
    /\ environ \in Environs
    /\ dirs = { working_directory, << "/", "e" >> }
    /\ InitWorkers
    /\ h_in \in { working_directory, << "/", "e" >> }
    /\ h_out = None

SandboxStep ==
    /\ h_out = None
    /\ h_out' = Some(create_sandbox_environment(h_in))
    /\ UNCHANGED << host_vars, dirs, backlog, pc, op, req, calls, spawns, live,
                    expired, proc, result, status, body, info_vars, log, h_in >>

SpecEnv == InitEnv /\ [][SandboxStep]_vars

\* ------------------------------------------------------------------------
\* validate_tool_access on every host, called up to twice between two
\* changes of the host
\* ------------------------------------------------------------------------
InitAccess ==
    /\ allowed_tools = DefaultAllowedTools
    /\ installed \in SUBSET ToolInputs
    /\ executable \in SUBSET ToolInputs
    /\ environ = StartEnviron
    /\ dirs = { working_directory, << "/", "e" >> }
    /\ InitWorkers
    /\ h_in \in ToolInputs
    /\ h_out = << >>

AccessStep ==
    /\ Len(h_out) < 2
    /\ h_out' = Append(h_out, validate_tool_access(h_in))
    /\ UNCHANGED << host_vars, dirs, backlog, pc, op, req, calls, spawns, live,
                    expired, proc, result, status, body, info_vars, log, h_in >>

\* the host changes: a file appears on or leaves the search path, or its
\* execute permission is set or cleared
HostChange ==
    /\ \E t \in ToolInputs :
          \/ installed' = (installed \cup { t }) \ (installed \cap { t })
             /\ UNCHANGED executable
          \/ executable' = (executable \cup { t }) \ (executable \cap { t })
             /\ UNCHANGED installed
    /\ h_out' = << >>
    /\ UNCHANGED << allowed_tools, environ, dirs, backlog, pc, op, req, calls, spawns,
                    live, expired, proc, result, status, body, info_vars, log, h_in >>

SpecAccess == InitAccess /\ [][AccessStep \/ HostChange]_vars

\* ------------------------------------------------------------------------
\* Properties
\* ------------------------------------------------------------------------
\* the characters the specification forbids in an argument string
ShellMetachars == { ";", "&", "|", "BACKTICK", "$", "(", ")", "<", ">" }

HasMetachar(str) == \E i \in 1..Len(str) : str[i] \in ShellMetachars

\* the run_tool invocations of every worker, as pairs of worker and call
AllCalls == { << w, i >> \in Workers \X (1..2) : i <= Len(calls[w]) }

AllSpawns == { << w, i >> \in Workers \X (1..2) : i <= Len(spawns[w]) }

\* the subprocess.run invocations that started a process
Started ==
    { s \in AllSpawns : ~(result[s[1]].kind = "OSError" /\ result[s[1]].detail = "launch") }

\* C1: a run_tool call for a tool that is not in config.allowed_tools ends
\* with SecurityError and subprocess.run is never invoked for it, whatever
\* the args, timeout and working_dir are.
C1_NotAllowedIsDenied ==
    \A c \in AllCalls :
        LET w == c[1]
            call == calls[w][c[2]]
        IN  ~InList(call.tool, allowed_tools)
                => /\ spawns[w] = << >>
                   /\ pc[w] = "done"
                   /\ result[w].kind = "SecurityError"

C1_Witness ==
    \E w \in Workers :
        /\ calls[w] # << >>
        /\ calls[w][1].tool = T_rm
        /\ calls[w][1].args = Some(<< "-", "V" >>)
        /\ calls[w][1].timeout = Some(1)
        /\ calls[w][1].working_dir = Some(<< "/", "w", "/", "x" >>)
        /\ result[w].kind = "SecurityError"
        /\ spawns[w] = << >>

\* C2: on every entry path (POST /run and the MCP tool run_tool), a process
\* is launched only if the tool is in the allow-list and the raw argument
\* string holds none of the characters ; & | ` $ ( ) < >.
C2_LaunchOnlyAllowedAndClean ==
    \A s \in Started :
        LET w == s[1]
        IN  /\ InList(req[w].tool, allowed_tools)
            /\ IsNone(req[w].args) \/ ~HasMetachar(Val(req[w].args))

\* C3: constructing a ToolExecutionRequest is rejected with 'Tool name contains
\* invalid characters' for the empty string and for every string with a
\* character outside letters, digits, hyphen and underscore (whitespace and a
\* trailing newline included); a name is accepted only if all its characters
\* are in [A-Za-z0-9_-].
C3_ToolNameRejectedUnlessInClass ==
    pc["http"] # "idle" =>
        LET t == req["http"].tool
            clean == t # << >> /\ \A i \in 1..Len(t) : t[i] \in ToolNameClass
        IN  clean <=> ~(result["http"].kind = "RequestValidationError"
                        /\ E_TOOL \in result["http"].errors)

C5_ExcessiveTimeoutRejected ==
    \A c \in AllCalls :
        LET w == c[1]
            call == calls[w][c[2]]
        IN  (/\ validate_tool_access(call.tool)
             /\ ~IsNone(call.timeout)
             /\ Val(call.timeout) > max_timeout)
                => /\ spawns[w] = << >>
                   /\ pc[w] = "done"
                   /\ result[w].kind = "ValueError"
                   /\ result[w].detail = "exceeds maximum allowed"

C5_Witness ==
    /\ calls["mcp"] # << >>
    /\ calls["mcp"][1].tool = T_ss
    /\ calls["mcp"][1].timeout = Some(max_timeout + 1)
    /\ result["mcp"].kind = "ValueError"
    /\ spawns["mcp"] = << >>

\* C6: every process run_tool launches, on any entry path, has a deadline t
\* with 1 <= t <= config.max_timeout: the caller's value when one is
\* supplied, config.default_timeout when none is; a zero or negative value
\* never reaches launch.
C6_DeadlinePositiveAndBounded ==
    \A s \in Started :
        LET w == s[1]
            t == spawns[w][s[2]].timeout
        IN  /\ 1 <= t /\ t <= max_timeout
            /\ t = IF IsNone(req[w].timeout) THEN default_timeout ELSE Val(req[w].timeout)

\* C7: for every input p, sanitize_path(p) contains no ".." and no "//", also
\* not at its start.
C7_NoTraversalNoDoubleSlash ==
    h_out # Unset => ~Contains(h_out, DOTDOT) /\ ~Contains(h_out, SLASHSLASH)

\* path is the sandbox root or lies below it
UnderRoot(path) ==
    path = working_directory \/ StartsWith(path, working_directory \o SLASH)

\* C8: the working directory of every launched process lies under the sandbox
\* root config.working_directory, whatever working_dir the caller gave.
C8_CwdUnderRoot ==
    \A s \in Started : UnderRoot(spawns[s[1]][s[2]].cwd)

\* C9: on normal exit, with O = stdout followed by stderr and cap =
\* config.max_output_size: run_tool returns O when len(O) <= cap, and the
\* first cap characters of O followed by "\n... (output truncated)" when
\* len(O) > cap; the result is never longer than cap plus the marker.
C9_OutputCapped ==
    \A w \in Workers :
        (pc[w] = "done" /\ result[w].kind = "return") =>
            LET O == proc[w].stdout \o proc[w].stderr
                v == result[w].value
            IN  /\ Len(O) <= max_output_size => v = O
                /\ Len(O) > max_output_size =>
                       /\ Len(v) = max_output_size + Len(TRUNCATION_MARKER)
                       /\ \A i \in 1..max_output_size : v[i] = O[i]
                       /\ \A i \in 1..Len(TRUNCATION_MARKER) :
                              v[max_output_size + i] = TRUNCATION_MARKER[i]
                /\ Len(v) <= max_output_size + Len(TRUNCATION_MARKER)

C9_Witness ==
    \E w \in Workers :
        /\ pc[w] = "done"
        /\ result[w].kind = "return"
        /\ Len(proc[w].stdout \o proc[w].stderr) > max_output_size
        /\ proc[w].stderr # << >>
        /\ Len(result[w].value) = max_output_size + Len(TRUNCATION_MARKER)

\* the outcomes that reject a request before anything is launched
Rejections == { "RequestValidationError", "SecurityError", "ValueError" }

\* C10: a run_tool call launches at most one process: one when every check
\* passes, none when the request is rejected; the process is started from an
\* argument vector whose first element is the tool, never through a shell;
\* a failed or timed-out execution is not retried.
C10_OneProcessNoShellNoRetry ==
    \A w \in Workers :
        LET res == result[w]
            rejected == \/ res.kind \in Rejections
                        \/ res.kind = "OSError" /\ res.detail = "makedirs"
        IN  /\ Len(spawns[w]) <= 1
            /\ pc[w] = "idle" => spawns[w] = << >>
            /\ pc[w] = "running" => Len(spawns[w]) = 1
            /\ pc[w] = "done" => (Len(spawns[w]) = IF rejected THEN 0 ELSE 1)
            /\ \A i \in 1..Len(spawns[w]) :
                   /\ spawns[w][i].shell = FALSE
                   /\ spawns[w][i].cmd[1] = req[w].tool

C10_Witness ==
    \E w \in Workers :
        /\ pc[w] = "done"
        /\ result[w].kind = "TimeoutError"
        /\ Len(spawns[w]) = 1
        /\ Len(spawns[w][1].cmd) = 2

\* C11: once the deadline of a launched process has passed before it exited,
\* the run_tool call never returns a result and hands over none of the output
\* captured so far, and it eventually ends by raising TimeoutError (status 408
\* on POST /run): it does not block for ever.
C11_TimeoutRaises ==
    \A w \in Workers :
        /\ [](expired[w] => /\ result[w].kind \in { "none", "TimeoutError" }
                            /\ result[w].value = << >>)
        /\ expired[w] ~> (/\ pc[w] = "done"
                          /\ result[w].kind = "TimeoutError"
                          /\ w = "http" => status[w] = 408)

C11_Witness ==
    /\ pc["http"] = "done"
    /\ expired["http"]
    /\ proc["http"].stdout # << >>
    /\ result["http"].kind = "TimeoutError"
    /\ result["http"].value = << >>
    /\ status["http"] = 408

\* C12: when a run_tool call has ended with TimeoutError, neither the process
\* it launched nor a child process of that process is still running.
C12_NothingLeftRunning ==
    \A w \in Workers :
        (pc[w] = "done" /\ result[w].kind = "TimeoutError") => live[w] = {}

\* C13: a request whose tool is still running never delays the launch of
\* another request's process: a POST /run that waits can be taken up while
\* the process of an earlier POST /run or of an MCP call runs, and an MCP
\* call can start while the process of a POST /run runs.
C13_NoSerialization ==
    /\ (backlog > 0 /\ pc["http"] = "running") => ENABLED SysPostRun
    /\ (backlog > 0 /\ pc["http"] = "idle" /\ pc["mcp"] = "running") => ENABLED SysPostRun
    /\ (pc["mcp"] = "idle" /\ pc["http"] = "running") => ENABLED SysMcpRunTool

\* C14: a POST /run that passed request validation has no response while
\* run_tool runs and exactly one when it has ended: 403 for SecurityError,
\* 400 for ValueError (and its subclasses), 408 for TimeoutError, 200 for a
\* normal return, and 500 with the text 'Internal server error' for any other
\* exception.
C14_EveryRunAnswered ==
    (op["http"] = "/run" /\ result["http"].kind # "RequestValidationError") =>
        LET k == result["http"].kind
            st == status["http"]
        IN  /\ pc["http"] = "running" => (k = "none" /\ st = 0)
            /\ pc["http"] = "done" =>
                  /\ k # "none"
                  /\ k = "SecurityError" => st = 403
                  /\ k \in { "ValueError", "UnicodeDecodeError" } => st = 400
                  /\ k = "TimeoutError" => st = 408
                  /\ k = "return" => (st = 200 /\ body["http"].success)
                  /\ k \notin { "SecurityError", "ValueError", "UnicodeDecodeError",
                                "TimeoutError", "return" }
                        => (st = 500 /\ body["http"].error = "Internal server error")

C14_Witness ==
    /\ op["http"] = "/run"
    /\ pc["http"] = "done"
    /\ result["http"].kind = "OSError"
    /\ status["http"] = 500
    /\ body["http"].error = "Internal server error"

\* C15: a finished request for which no process was launched is reported as
\* a rejection (SecurityError, ValueError or a request-validation error: 403,
\* 400 or 422), and a timeout or any other error (408 or 500) is reported
\* only when a process was launched, failures of the working-directory
\* creation included.
C15_KindTellsWhetherRan ==
    \A w \in Workers :
        pc[w] = "done" /\ op[w] \in { "/run", "run_tool" } =>
            LET launched == \E s \in Started : s[1] = w
                k == result[w].kind
            IN  /\ ~launched =>
                      /\ k \in Rejections
                      /\ w = "http" => status[w] \in { 403, 400, 422 }
                /\ (k \notin Rejections \/ status[w] \in { 408, 500 }) => launched

\* C16: the return_code of the response to a POST /run whose process exited
\* normally is the exit code of that process, zero or not.
C16_ReturnCodeIsExitCode ==
    (pc["http"] = "done" /\ result["http"].kind = "return") =>
        body["http"].return_code = proc["http"].returncode

\* the chunks of both streams, joined in the order they were written
RECURSIVE InWrittenOrder(_)
InWrittenOrder(writes) ==
    IF writes = << >> THEN << >>
    ELSE writes[1].data \o InWrittenOrder(Tail(writes))

\* the part of an output that the size cap lets through
UpToCap(s) == SubSeq(s, 1, IF Len(s) < max_output_size THEN Len(s) ELSE max_output_size)

C18_SandboxEnvironment ==
    h_out # None =>
        LET env == Val(h_out)
        IN  /\ DOMAIN env \subseteq { "PATH", "HOME", "USER", "SHELL", "PWD", "LANG",
                                      "LC_ALL", "LD_PRELOAD", "LD_LIBRARY_PATH" }
            /\ { "PWD", "LD_PRELOAD", "LD_LIBRARY_PATH" } \subseteq DOMAIN env
            /\ env["PWD"] = h_in
            /\ env["LD_PRELOAD"] = << >>
            /\ env["LD_LIBRARY_PATH"] = << >>
            /\ \A n \in { "PATH", "HOME", "USER", "SHELL", "LANG", "LC_ALL" } :
                   /\ n \in DOMAIN env <=> n \in DOMAIN environ
                   /\ n \in DOMAIN env => env[n] = environ[n]
            /\ "PYTHONPATH" \notin DOMAIN env

C18_Witness ==
    /\ h_out # None
    /\ { "PATH", "PWD", "LD_PRELOAD", "PYTHONPATH" } \subseteq DOMAIN environ
    /\ "HOME" \notin DOMAIN environ
    /\ h_in = << "/", "e" >>
    /\ DOMAIN Val(h_out) = { "PATH", "PWD", "LD_PRELOAD", "LD_LIBRARY_PATH" }

\* C19: no step of any request (run_tool, get_tool_info, list_tools, POST
\* /run, GET /tools, GET /tools/{name}, GET /metrics), in any interleaving,
\* changes config.allowed_tools: it keeps the value it had after startup.
C19_AllowListFrozen == [][allowed_tools' = allowed_tools]_vars

C19_Witness ==
    /\ op["http"] = "/tools"
    /\ pc["http"] = "done"
    /\ Len(info["http"].tools) = Len(DefaultAllowedTools)
    /\ op["mcp"] = "run_tool"
    /\ pc["mcp"] = "running"
    /\ allowed_tools = DefaultAllowedTools

\* C20: validate_tool_access(name) is True exactly when name is in
\* config.allowed_tools, the search path holds a file of that name and the
\* running user may execute it; a second call with no change of the host or
\* the allow-list in between gives the same result as the first.
C20_AccessIffAllowedFoundExecutable ==
    /\ \A i \in 1..Len(h_out) :
           h_out[i] <=> (/\ \E j \in 1..Len(allowed_tools) : allowed_tools[j] = h_in
                         /\ h_in \in installed
                         /\ h_in \in executable)
    /\ Len(h_out) = 2 => h_out[1] = h_out[2]

C20_Witness ==
    /\ Len(h_out) = 2
    /\ h_in = T_ss
    /\ h_in \in installed
    /\ h_in \notin executable
    /\ h_out[2] = FALSE

\* the exceptions a version probe may end with
ProbeFailures == { "TimeoutExpired", "CalledProcessError", "FileNotFoundError",
                   "PermissionError" }

\* C21: get_tool_info(name) gives None and runs no version probe when
\* validate_tool_access(name) is false; for an available tool it gives a
\* ToolInfo with the resolved path however the version probe ends (timeout,
\* non-zero exit, missing binary, permission or other OS error at launch): no
\* failure of the probe is raised to the caller.
C21_ProbeFailureTolerated ==
    \A w \in Workers :
        (pc[w] = "done" /\ op[w] \in { "/tools/{tool_name}", "get_tool_info" }) =>
            LET n == info[w].name
            IN  /\ info[w].raised \notin ProbeFailures
                /\ ~validate_tool_access(n) =>
                       /\ probes[w] = << >>
                       /\ info[w].tools = << >>
                       /\ w = "http" => status[w] = 404
                /\ (validate_tool_access(n) /\ w = "http") =>
                       /\ status[w] = 200
                       /\ Len(info[w].tools) = 1
                       /\ info[w].tools[1].name = n
                       /\ info[w].tools[1].path = Val(which(n))
                       /\ info[w].tools[1].available

\* C22: at every moment the process output held in the capture buffer is at
\* most config.max_output_size characters long.
C22_CaptureBufferCapped ==
    \A w \in Workers : Len(proc[w].stdout) + Len(proc[w].stderr) <= max_output_size

\* C23: when run_tool has ended with SecurityError, a warning-level log event
\* has been emitted for the request, on the HTTP path and when run_tool is
\* called directly.
C23_SecurityErrorLogged ==
    \A w \in Workers :
        (pc[w] = "done" /\ result[w].kind = "SecurityError") =>
            \E i \in 1..Len(log[w]) : log[w][i].level = "warning"

\* C24: when run_tool has returned normally for a POST /run, it was invoked
\* exactly once, with the request's tool, args, timeout and working_dir
\* unchanged, and the response has success = true, output = the value run_tool
\* returned, and tool and args as in the request, whatever the exit code of
\* the tool was.
C24_SuccessEchoesRequest ==
    (pc["http"] = "done" /\ op["http"] = "/run" /\ result["http"].kind = "return") =>
        /\ Len(calls["http"]) = 1
        /\ calls["http"][1] = req["http"]
        /\ status["http"] = 200
        /\ body["http"].success = TRUE
        /\ body["http"].output = result["http"].value
        /\ body["http"].tool = req["http"].tool
        /\ body["http"].args = req["http"].args

C24_Witness ==
    /\ pc["http"] = "done"
    /\ op["http"] = "/run"
    /\ result["http"].kind = "return"
    /\ req["http"].args = Some(<< "-", "V" >>)
    /\ proc["http"].returncode = Some(1)
    /\ body["http"].success = TRUE
    /\ body["http"].args = Some(<< "-", "V" >>)

\* C25: a ToolExecutionRequest whose args hold a curly brace or a square
\* bracket is rejected with 'potentially dangerous characters'.
C25_BracesRejected ==
    pc["http"] # "idle" =>
        LET a == req["http"].args
        IN  (~IsNone(a) /\ \E i \in 1..Len(Val(a)) : Val(a)[i] \in { "{", "}", "[", "]" })
                => /\ result["http"].kind = "RequestValidationError"
                   /\ E_ARGS \in result["http"].errors

\* C26: run_tool checks, in this order, the availability of the tool, the
\* timeout ceiling, the working directory, the tokenization of the arguments,
\* and then launches; it stops at the first step that fails: an unavailable
\* tool gives SecurityError whatever the timeout is, an excessive timeout
\* gives the timeout ValueError whatever the quoting is, and after a failed
\* step no directory is created and no process launched.
C26_ChecksInOrder ==
    /\ [](\A w \in Workers :
            (pc[w] = "done" /\ calls[w] # << >>) =>
                LET c == calls[w][1]
                    res == result[w]
                    unavailable == ~validate_tool_access(c.tool)
                    excessive == ~IsNone(c.timeout) /\ Val(c.timeout) > max_timeout
                    unbalanced == Truthy(c.args) /\ ~shlex_split(Val(c.args)).ok
                    nodir == res.kind = "OSError" /\ res.detail = "makedirs"
                IN  /\ unavailable =>
                          (res.kind = "SecurityError" /\ spawns[w] = << >>)
                    /\ (~unavailable /\ excessive) =>
                          /\ res.kind = "ValueError"
                          /\ res.detail = "exceeds maximum allowed"
                          /\ spawns[w] = << >>
                    /\ (~unavailable /\ ~excessive /\ nodir) => spawns[w] = << >>
                    /\ (~unavailable /\ ~excessive /\ ~nodir /\ unbalanced) =>
                          /\ res.kind = "ValueError"
                          /\ res.detail = "Invalid arguments"
                          /\ spawns[w] = << >>
                    /\ (~unavailable /\ ~excessive /\ ~nodir /\ ~unbalanced) =>
                          Len(spawns[w]) = 1)
    /\ [][\A w \in Workers :
            (/\ pc[w] = "idle"
             /\ pc'[w] = "done"
             /\ \/ result'[w].kind = "SecurityError"
                \/ result'[w].detail = "exceeds maximum allowed"
                \/ result'[w].detail = "makedirs")
                => dirs' = dirs]_vars

C26_Witness ==
    /\ pc["mcp"] = "done"
    /\ calls["mcp"] # << >>
    /\ calls["mcp"][1].tool = T_ss
    /\ calls["mcp"][1].timeout = Some(max_timeout + 1)
    /\ calls["mcp"][1].args = Some(<< "'", "a" >>)
    /\ calls["mcp"][1].working_dir = Some(<< "/", "w", "/", "x" >>)
    /\ result["mcp"].kind = "ValueError"
    /\ result["mcp"].detail = "exceeds maximum allowed"
    /\ << "/", "w", "/", "x" >> \notin dirs

\* C27: a step in which run_tool rejects a request before launch (request
\* validation, SecurityError, ValueError) creates no directory; in particular
\* an argument string that cannot be tokenized gives ValueError ('Invalid
\* arguments') with no process launched and no working directory created.
C27_RejectionLeavesHostUnchanged ==
    [][\A w \in Workers :
          (/\ pc[w] = "idle"
           /\ pc'[w] = "done"
           /\ result'[w].kind \in Rejections)
              => (dirs' = dirs /\ spawns'[w] = << >>)]_vars

\* the environment holds only retained variables, with an empty LD_PRELOAD
\* and LD_LIBRARY_PATH
Scrubbed(env) ==
    /\ DOMAIN env \subseteq { "PATH", "HOME", "USER", "SHELL", "PWD", "LANG", "LC_ALL",
                              "LD_PRELOAD", "LD_LIBRARY_PATH" }
    /\ { "LD_PRELOAD", "LD_LIBRARY_PATH" } \subseteq DOMAIN env
    /\ env["LD_PRELOAD"] = << >>
    /\ env["LD_LIBRARY_PATH"] = << >>

\* C28: every process the server starts for a request, the tool run_tool
\* launches and the version probe get_tool_info launches, gets the scrubbed
\* sandbox environment and a working directory the server prepared.
C28_EverySpawnSandboxed ==
    \A w \in Workers :
        /\ \A i \in 1..Len(spawns[w]) :
               /\ Scrubbed(spawns[w][i].env)
               /\ spawns[w][i].cwd \in dirs
        /\ \A i \in 1..Len(probes[w]) :
               /\ Scrubbed(probes[w][i].env)
               /\ ~IsNone(probes[w][i].cwd)
               /\ probes[w][i].cwd \in dirs

====
